---- MODULE Spec2Model ----
(* A state-machine model of the print-layout editor of src/src/PrintCanvas.js  *)
(* (the PrintCanvas component with text annotations, lines 253-596) and of     *)
(* its parent src/src/App.js.  The variables are the React state cells, the    *)
(* props, and the callbacks that are in flight (file reads / image decodes     *)
(* started by an upload, print timeouts).  Every action is one event handler   *)
(* or one asynchronous callback.  A handler sees the state of the render it    *)
(* was created in; an asynchronous callback therefore works on the values its  *)
(* closure captured when the upload started, not on the current ones.          *)
(* Coordinates are JavaScript numbers.  The state machine of the editor        *)
(* (Spec, SpecSequential) carries them as exact rationals <<numerator,         *)
(* denominator>> in lowest terms; the runs that are about the numbers of the   *)
(* layout themselves (SpecLayout) carry them as the binary64 values the        *)
(* engine computes.                                                            *)
(* uploadCount and edits count events; they are not state of the program and  *)
(* no handler reads them.  They bound the runs that are explored (MaxUploads,  *)
(* MaxEdits), and last names the handler that ran last.                        *)
EXTENDS Integers, Sequences, FiniteSets, TLC

VARIABLES
    pageSize,       \* App.js state: "A4" | "A3"
    orientation,    \* App.js state: "portrait" | "landscape"
    images,         \* useState([])  : sequence of placed images
    texts,          \* useState([])  : sequence of text annotations
    selectedImage,  \* useState(null): an image id or Null
    selectedText,   \* useState(null): a text id or Null
    printMode,      \* useState("Scaled Print")
    gridSize,       \* useState({rows: 3, cols: 4})
    contextMenu,    \* useState(null): closed, or open at a client position
    uploads,        \* uploads in flight: the closures of handleFileUpload
    printTimers,    \* number of setTimeout callbacks of handlePrint not yet run
    uploadCount,    \* number of uploads started so far
    edits,          \* number of edits so far: zooms, drags, text edits, grid inputs
    last            \* the last event: its handler, and whether it threw

vars == <<pageSize, orientation, images, texts, selectedImage, selectedText,
          printMode, gridSize, contextMenu, uploads, printTimers,
          uploadCount, edits, last>>

-----------------------------------------------------------------------------
(* Bounds of the model *)

MaxUploads == 2
MaxSequentialUploads == 3
MaxTexts == 2
MaxTimers == 1
MaxEdits == 1
MaxLayoutUploads == 2

-----------------------------------------------------------------------------
(* Rational arithmetic for JavaScript numbers *)

Abs(a) == IF a < 0 THEN -a ELSE a

RECURSIVE Gcd(_, _)
Gcd(a, b) == IF b = 0 THEN a ELSE Gcd(b, a % b)

Rat(n, d) ==
    LET g == Gcd(Abs(n), Abs(d))
        s == IF d < 0 THEN -1 ELSE 1
    IN  <<(s * n) \div g, (s * d) \div g>>

Num(n) == <<n, 1>>
RAdd(a, b) == Rat(a[1] * b[2] + b[1] * a[2], a[2] * b[2])
RSub(a, b) == Rat(a[1] * b[2] - b[1] * a[2], a[2] * b[2])
RMul(a, b) == Rat(a[1] * b[1], a[2] * b[2])
RDiv(a, b) == Rat(a[1] * b[2], a[2] * b[1])
RLe(a, b) == a[1] * b[2] <= b[1] * a[2]
RMin(a, b) == IF RLe(a, b) THEN a ELSE b

-----------------------------------------------------------------------------
(* Binary64 arithmetic for JavaScript numbers                                *)
(* A JavaScript number is an IEEE-754 binary64 value: every result of / * -  *)
(* is the exact result rounded to 53 significant bits, ties to even.  The    *)
(* values here are dyadic numbers [neg, m, e] = (-1)^neg * m * 2^e, with m   *)
(* an odd natural number (or zero) written in base 2^16, least significant   *)
(* digit first (<<>> is zero).  The layout of an upload works on page sizes, *)
(* grid sizes and pixel sizes, far from the ends of the exponent range: no   *)
(* overflow, no subnormal and no NaN arises, and none is modelled.           *)

Precision == 53
DigitBits == 16
Base == 2^DigitBits

Digit(a, i) == IF i \in 1..Len(a) THEN a[i] ELSE 0

RECURSIVE BigOf(_)
BigOf(n) == IF n = 0 THEN <<>> ELSE <<n % Base>> \o BigOf(n \div Base)

RECURSIVE Trim(_)
\* a without its most significant zero digits
Trim(a) ==
    IF a = <<>> \/ a[Len(a)] # 0 THEN a ELSE Trim(SubSeq(a, 1, Len(a) - 1))

RECURSIVE AddFrom(_, _, _, _)
AddFrom(a, b, i, carry) ==
    IF i > Len(a) /\ i > Len(b) THEN BigOf(carry)
    ELSE LET sum == Digit(a, i) + Digit(b, i) + carry
         IN  <<sum % Base>> \o AddFrom(a, b, i + 1, sum \div Base)

BigAdd(a, b) == AddFrom(a, b, 1, 0)

RECURSIVE SubFrom(_, _, _, _)
SubFrom(a, b, i, borrow) ==
    IF i > Len(a) THEN <<>>
    ELSE LET d == Digit(a, i) - Digit(b, i) - borrow
         IN  <<(d + Base) % Base>>
                 \o SubFrom(a, b, i + 1, IF d < 0 THEN 1 ELSE 0)

\* a - b for a >= b
BigSub(a, b) == Trim(SubFrom(a, b, 1, 0))

BigLess(a, b) ==
    \/ Len(a) < Len(b)
    \/ /\ Len(a) = Len(b)
       /\ \E i \in 1..Len(a) :
             /\ a[i] < b[i]
             /\ \A j \in (i + 1)..Len(a) : a[j] = b[j]

RECURSIVE MulFrom(_, _, _, _)
MulFrom(a, n, i, carry) ==
    IF i > Len(a) THEN BigOf(carry)
    ELSE LET p == a[i] * n + carry
         IN  <<p % Base>> \o MulFrom(a, n, i + 1, p \div Base)

\* a * n for a natural number n < 2^15
BigMul(a, n) == Trim(MulFrom(a, n, 1, 0))

\* a * 2^k
BigShl(a, k) ==
    IF a = <<>> THEN <<>>
    ELSE [i \in 1..(k \div DigitBits) |-> 0] \o BigMul(a, 2^(k % DigitBits))

\* a \div 2^k
BigShr(a, k) ==
    LET q == k \div DigitBits
        s == k % DigitBits
    IN  Trim([i \in 1..(Len(a) - q) |->
                 (Digit(a, i + q) \div 2^s)
                     + (Digit(a, i + q + 1) % 2^s) * 2^(DigitBits - s)])

RECURSIVE DivFrom(_, _, _, _)
\* Long division of the digits i..1 of a by d, 0 < d < 2^15, after the
\* remainder r of the digits above: the quotient's digits i..1 and the
\* remainder.
DivFrom(a, d, i, r) ==
    IF i = 0 THEN [quotient |-> <<>>, remainder |-> r]
    ELSE LET r2 == r * Base + a[i]
             rest == DivFrom(a, d, i - 1, r2 % d)
         IN  [quotient |-> Append(rest.quotient, r2 \div d),
              remainder |-> rest.remainder]

BigDiv(a, d) ==
    LET r == DivFrom(a, d, Len(a), 0)
    IN  [quotient |-> Trim(r.quotient), remainder |-> r.remainder]

\* The number of binary digits of n > 0, and of a.
BitLen(n) == CHOOSE k \in 1..31 : n < 2^k /\ (k > 1 => 2^(k - 1) <= n)
BitLength(a) ==
    IF a = <<>> THEN 0 ELSE DigitBits * (Len(a) - 1) + BitLen(a[Len(a)])

\* The number of zero bits below the lowest one bit of a # 0.
LowZeros(a) ==
    CHOOSE k \in 0..BitLength(a) :
        /\ BigShl(BigShr(a, k), k) = a
        /\ Digit(BigShr(a, k), 1) % 2 = 1

\* The dyadic number (-1)^neg * m * 2^e, with its mantissa made odd.
Dyadic(neg, m, e) ==
    IF m = <<>> THEN [neg |-> FALSE, m |-> <<>>, e |-> 0]
    ELSE [neg |-> neg, m |-> BigShr(m, LowZeros(m)), e |-> e + LowZeros(m)]

Number(n) == Dyadic(n < 0, BigOf(Abs(n)), 0)

\* The mantissas of a and b over their common exponent.
Aligned(a, b) ==
    LET e == IF a.m = <<>> THEN b.e
             ELSE IF b.m = <<>> \/ a.e < b.e THEN a.e ELSE b.e
    IN  [a |-> BigShl(a.m, a.e - e), b |-> BigShl(b.m, b.e - e), e |-> e]

\* Exact comparison, sum and difference of dyadic numbers a, b >= 0.
DyLess(a, b) == BigLess(Aligned(a, b).a, Aligned(a, b).b)
DyLe(a, b) == ~DyLess(b, a)
DyAdd(a, b) ==
    LET al == Aligned(a, b) IN Dyadic(FALSE, BigAdd(al.a, al.b), al.e)
DySub(a, b) ==
    LET al == Aligned(a, b)
    IN  IF BigLess(al.a, al.b)
        THEN Dyadic(TRUE, BigSub(al.b, al.a), al.e)
        ELSE Dyadic(FALSE, BigSub(al.a, al.b), al.e)

\* Round to nearest, ties to even, at 53 significant bits.
Round(x) ==
    IF BitLength(x.m) <= Precision THEN x
    ELSE LET drop == BitLength(x.m) - Precision
             kept == BigShr(x.m, drop)
             half == Digit(BigShr(x.m, drop - 1), 1) % 2 = 1
             more == BigShl(BigShr(x.m, drop - 1), drop - 1) # x.m
             up == half /\ (more \/ kept[1] % 2 = 1)
         IN  Dyadic(x.neg, IF up THEN BigAdd(kept, <<1>>) ELSE kept, x.e + drop)

\* Bits of a quotient computed beyond the 53 that are kept.
GuardBits == 3

\* The JavaScript operators on numbers, for the operands the layout has:
\* x / d and n * x with integers 0 < d, n < 2^15, and a - b and
\* Math.min(a, b) with a, b >= 0.
FloatDiv(x, d) ==
    LET k == Precision + GuardBits + BitLen(d)
        q == BigDiv(BigShl(x.m, k), d)
        sticky == IF q.remainder = 0 THEN <<>> ELSE <<1>>
    IN  Round(Dyadic(x.neg, BigAdd(BigMul(q.quotient, 2), sticky), x.e - k - 1))

FloatMul(n, x) == Round(Dyadic(x.neg, BigMul(x.m, n), x.e))
FloatSub(a, b) == Round(DySub(a, b))
FloatMin(a, b) == IF DyLess(b, a) THEN b ELSE a

-----------------------------------------------------------------------------
(* Constants of the program *)

Null == -1

PAGE_SIZES ==
    [A4 |-> [width |-> 210, height |-> 297],
     A3 |-> [width |-> 297, height |-> 420]]

PrintModes == {"Scaled Print", "PECS"}

InitialGridSize == [rows |-> 3, cols |-> 4]
DefaultCols == 5
DefaultRows == 4

ZoomInFactor == <<6, 5>>
ZoomOutFactor == <<4, 5>>

TextOffset == 10
SampleText == "Sample Text"
TextWidth == 100

ClosedMenu == [open |-> FALSE, x |-> 0, y |-> 0]

-----------------------------------------------------------------------------
(* Inputs of the events *)

\* Files the user can pick: decodable images with their pixel size, and a file
\* that is not an image (img.onload never fires for it).
Files ==
    {[width |-> 1000, height |-> 500, image |-> TRUE],
     [width |-> 0, height |-> 0, image |-> FALSE]}

\* Pixel sizes of the images picked in the runs that compute the layout in
\* binary64, and the grids of those runs.
LayoutFiles ==
    {[width |-> 1000, height |-> 500, image |-> TRUE],
     [width |-> 39, height |-> 1, image |-> TRUE],
     [width |-> 500, height |-> 1000, image |-> TRUE]}

LayoutGrids ==
    {[rows |-> 1, cols |-> 1], [rows |-> 3, cols |-> 4], [rows |-> 2, cols |-> 7]}

\* Values typed in the Columns / Rows fields, as character sequences.
GridInputs == {<<>>, <<"0">>, <<"-", "2">>, <<"2">>}

\* Positions a drag can end at.
DragPositions == {[x |-> Num(5), y |-> Num(7)]}

\* Client positions of a right click.
ClickPoints == {[x |-> 40, y |-> 60]}

\* Answers to the prompt of a double click on a text.
PromptInputs == {"Hi"}

-----------------------------------------------------------------------------
(* Pure functions *)

canvasDimensions(size, orient) ==
    IF orient = "portrait"
    THEN [width |-> PAGE_SIZES[size].width, height |-> PAGE_SIZES[size].height]
    ELSE [width |-> PAGE_SIZES[size].height, height |-> PAGE_SIZES[size].width]

cellWidth(size, orient, grid) ==
    RDiv(Num(canvasDimensions(size, orient).width), Num(grid.cols))

cellHeight(size, orient, grid) ==
    RDiv(Num(canvasDimensions(size, orient).height), Num(grid.rows))

Digits == {"0", "1", "2", "3", "4", "5", "6", "7", "8", "9"}

DigitValue(c) ==
    CASE c = "0" -> 0 [] c = "1" -> 1 [] c = "2" -> 2 [] c = "3" -> 3
      [] c = "4" -> 4 [] c = "5" -> 5 [] c = "6" -> 6 [] c = "7" -> 7
      [] c = "8" -> 8 [] c = "9" -> 9

RECURSIVE ParseDigits(_, _, _)
\* The value of the longest prefix of digits of s from position i on, after
\* the digits already read (acc); NaN when there is no digit at all.
ParseDigits(s, i, acc) ==
    IF i <= Len(s) /\ s[i] \in Digits
    THEN ParseDigits(s, i + 1,
             [nan |-> FALSE, value |-> 10 * acc.value + DigitValue(s[i])])
    ELSE acc

NaN == [nan |-> TRUE, value |-> 0]

RECURSIVE SkipSpaces(_, _)
SkipSpaces(s, i) == IF i <= Len(s) /\ s[i] = " " THEN SkipSpaces(s, i + 1) ELSE i

\* JavaScript parseInt(string): leading white space, an optional sign, then
\* decimal digits up to the first other character.
parseInt(s) ==
    LET i == SkipSpaces(s, 1)
        signed == i <= Len(s) /\ s[i] \in {"-", "+"}
        neg == signed /\ s[i] = "-"
        r == ParseDigits(s, IF signed THEN i + 1 ELSE i, NaN)
    IN  IF r.nan THEN NaN
        ELSE [nan |-> FALSE, value |-> IF neg THEN -r.value ELSE r.value]

\* JavaScript  v || d  for a number v: d when v is NaN or 0.
OrDefault(v, d) == IF v.nan \/ v.value = 0 THEN d ELSE v.value

\* Math.floor(n / c) and n % c for an integer n >= 0 and an integer c # 0.
FloorDiv(n, c) == IF c > 0 THEN n \div c ELSE -((n + (-c) - 1) \div (-c))
Remainder(n, c) == n % Abs(c)

gridPos(n, grid) ==
    [row |-> FloorDiv(n, grid.cols), col |-> Remainder(n, grid.cols)]

\* The image img.onload builds from the values the upload's closure captured.
newImage(u) ==
    LET canvas == canvasDimensions(u.pageSize, u.orientation)
        cw == cellWidth(u.pageSize, u.orientation, u.gridSize)
        ch == cellHeight(u.pageSize, u.orientation, u.gridSize)
        scaled == u.printMode = "Scaled Print"
        scale == IF scaled
                 THEN RMin(RDiv(Num(canvas.width), Num(u.file.width)),
                           RDiv(Num(canvas.height), Num(u.file.height)))
                 ELSE RMin(RDiv(cw, Num(u.file.width)),
                           RDiv(ch, Num(u.file.height)))
        width == RMul(Num(u.file.width), scale)
        height == RMul(Num(u.file.height), scale)
    IN  [id |-> u.n,
         src |-> u.file,
         x |-> IF scaled THEN RDiv(RSub(Num(canvas.width), width), Num(2))
                         ELSE RDiv(RSub(cw, width), Num(2)),
         y |-> IF scaled THEN RDiv(RSub(Num(canvas.height), height), Num(2))
                         ELSE RDiv(RSub(ch, height), Num(2)),
         width |-> width,
         height |-> height,
         gridPos |-> gridPos(u.n, u.gridSize)]

\* The same image as the JavaScript engine computes it, in binary64.
newImageFloat(u) ==
    LET canvas == canvasDimensions(u.pageSize, u.orientation)
        cw == FloatDiv(Number(canvas.width), u.gridSize.cols)
        ch == FloatDiv(Number(canvas.height), u.gridSize.rows)
        scaled == u.printMode = "Scaled Print"
        scale == IF scaled
                 THEN FloatMin(FloatDiv(Number(canvas.width), u.file.width),
                               FloatDiv(Number(canvas.height), u.file.height))
                 ELSE FloatMin(FloatDiv(cw, u.file.width),
                               FloatDiv(ch, u.file.height))
        width == FloatMul(u.file.width, scale)
        height == FloatMul(u.file.height, scale)
    IN  [id |-> u.n,
         src |-> u.file,
         x |-> IF scaled THEN FloatDiv(FloatSub(Number(canvas.width), width), 2)
                         ELSE FloatDiv(FloatSub(cw, width), 2),
         y |-> IF scaled THEN FloatDiv(FloatSub(Number(canvas.height), height), 2)
                         ELSE FloatDiv(FloatSub(ch, height), 2),
         width |-> width,
         height |-> height,
         gridPos |-> gridPos(u.n, u.gridSize)]

\* Array.prototype.filter / map / find
RECURSIVE Filter(_, _)
Filter(s, id) ==
    IF s = <<>> THEN <<>>
    ELSE IF Head(s).id # id THEN <<Head(s)>> \o Filter(Tail(s), id)
    ELSE Filter(Tail(s), id)

Matches(s, id) == {i \in 1..Len(s) : s[i].id = id}

Find(s, id) == s[CHOOSE i \in Matches(s, id) : \A j \in Matches(s, id) : i <= j]

RemoveAt(s, i) == SubSeq(s, 1, i - 1) \o SubSeq(s, i + 1, Len(s))

Event(op) == [op |-> op, threw |-> FALSE]

-----------------------------------------------------------------------------
(* Initial state: the useState initial values *)

Init ==
    /\ pageSize = "A4"
    /\ orientation = "portrait"
    /\ images = <<>>
    /\ texts = <<>>
    /\ selectedImage = Null
    /\ selectedText = Null
    /\ printMode = "Scaled Print"
    /\ gridSize = InitialGridSize
    /\ contextMenu = ClosedMenu
    /\ uploads = <<>>
    /\ printTimers = 0
    /\ uploadCount = 0
    /\ edits = 0
    /\ last = Event("init")

-----------------------------------------------------------------------------
(* App.js: the page-size and orientation selects *)

props == <<pageSize, orientation>>
budgets == <<uploadCount, edits>>

setPageSize(size) ==
    /\ size # pageSize
    /\ pageSize' = size
    /\ last' = Event("setPageSize")
    /\ UNCHANGED <<orientation, images, texts, selectedImage, selectedText,
                   printMode, gridSize, contextMenu, uploads, printTimers,
                   budgets>>

setOrientation(orient) ==
    /\ orient # orientation
    /\ orientation' = orient
    /\ last' = Event("setOrientation")
    /\ UNCHANGED <<pageSize, images, texts, selectedImage, selectedText,
                   printMode, gridSize, contextMenu, uploads, printTimers,
                   budgets>>

-----------------------------------------------------------------------------
(* Upload: handleFileUpload and the callbacks it registers *)

\* What the callbacks of an upload started now will read: the values of the
\* current render (images.length, printMode, gridSize, the page) and the file.
\* Mutant: the callbacks read the length of the list after setImages([]).
Closure_ReadsClearedList(file) ==
    [n |-> 0,
     printMode |-> printMode,
     gridSize |-> gridSize,
     pageSize |-> pageSize,
     orientation |-> orientation,
     file |-> file,
     stage |-> "reading"]

Closure(file) ==
    [n |-> Len(images),
     printMode |-> printMode,
     gridSize |-> gridSize,
     pageSize |-> pageSize,
     orientation |-> orientation,
     file |-> file,
     stage |-> "reading"]

handleFileUpload(file) ==
    /\ uploadCount' = uploadCount + 1
    /\ images' = <<>>
    /\ uploads' = Append(uploads, Closure(file))
    /\ last' = Event("handleFileUpload")
    /\ UNCHANGED <<props, texts, selectedImage, selectedText, printMode,
                   gridSize, contextMenu, printTimers, edits>>

\* reader.onload: the file is read; the decode of the image starts.
readerOnload(i) ==
    /\ uploads[i].stage = "reading"
    /\ uploads' = [uploads EXCEPT ![i].stage = "decoding"]
    /\ last' = Event("readerOnload")
    /\ UNCHANGED <<props, images, texts, selectedImage, selectedText,
                   printMode, gridSize, contextMenu, printTimers, budgets>>

\* Mutant: the image of a decode that completes after the print mode was
\* switched is discarded.
imgOnload_UnlessModeSwitched(i) ==
    /\ uploads[i].stage = "decoding"
    /\ uploads[i].file.image
    /\ images' = IF uploads[i].printMode = printMode
                 THEN Append(images, newImage(uploads[i]))
                 ELSE images
    /\ uploads' = RemoveAt(uploads, i)
    /\ last' = Event("imgOnload")
    /\ UNCHANGED <<props, texts, selectedImage, selectedText, printMode,
                   gridSize, contextMenu, printTimers, budgets>>

\* img.onload: the decode succeeded; the image is appended to the current list.
imgOnload(i) ==
    /\ uploads[i].stage = "decoding"
    /\ uploads[i].file.image
    /\ images' = Append(images, newImage(uploads[i]))
    /\ uploads' = RemoveAt(uploads, i)
    /\ last' = Event("imgOnload")
    /\ UNCHANGED <<props, texts, selectedImage, selectedText, printMode,
                   gridSize, contextMenu, printTimers, budgets>>

\* img.onload, with the numbers of the new image as the engine computes them.
imgOnloadFloat(i) ==
    /\ uploads[i].stage = "decoding"
    /\ uploads[i].file.image
    /\ images' = Append(images, newImageFloat(uploads[i]))
    /\ uploads' = RemoveAt(uploads, i)
    /\ last' = Event("imgOnload")
    /\ UNCHANGED <<props, texts, selectedImage, selectedText, printMode,
                   gridSize, contextMenu, printTimers, budgets>>

\* The decode failed: img.onload never fires and nothing else is registered.
decodeFails(i) ==
    /\ uploads[i].stage = "decoding"
    /\ ~uploads[i].file.image
    /\ uploads' = RemoveAt(uploads, i)
    /\ last' = Event("decodeFails")
    /\ UNCHANGED <<props, images, texts, selectedImage, selectedText,
                   printMode, gridSize, contextMenu, printTimers, budgets>>

-----------------------------------------------------------------------------
(* Selection *)

handleSelectImage(id) ==
    /\ selectedImage' = id
    /\ selectedText' = Null

\* Mutant: the Group's handler selects the text and keeps the selected image.
handleSelectText_KeepsImage(id) ==
    /\ selectedText' = id
    /\ UNCHANGED selectedImage

handleSelectText(id) ==
    /\ selectedText' = id
    /\ selectedImage' = Null

\* The Text node's own onClick: setSelectedText(txt.id)
textOnClick(id) ==
    selectedText' = id

\* A click on the i-th image: ClippedImage's Image onClick = onSelect.
clickImage(i) ==
    /\ handleSelectImage(images[i].id)
    /\ last' = Event("clickImage")
    /\ UNCHANGED <<props, images, texts, printMode, gridSize, contextMenu,
                   uploads, printTimers, budgets>>

\* A click on the i-th text: the Text node's onClick runs, then the click
\* bubbles to the enclosing Group, whose onClick is handleSelectText.  Both
\* run in the same event dispatch, on the same render.
clickText(i) ==
    /\ textOnClick(texts[i].id)
    /\ handleSelectText(texts[i].id)
    /\ last' = Event("clickText")
    /\ UNCHANGED <<props, images, texts, printMode, gridSize, contextMenu,
                   uploads, printTimers, budgets>>

handleContextMenu(point, id, type) ==
    /\ IF type = "image"
       THEN selectedImage' = id /\ selectedText' = Null
       ELSE IF type = "text"
       THEN selectedText' = id /\ selectedImage' = Null
       ELSE UNCHANGED <<selectedImage, selectedText>>
    /\ contextMenu' = [open |-> TRUE, x |-> point.x, y |-> point.y]

contextMenuImage(i, point) ==
    /\ handleContextMenu(point, images[i].id, "image")
    /\ last' = Event("contextMenuImage")
    /\ UNCHANGED <<props, images, texts, printMode, gridSize, uploads,
                   printTimers, budgets>>

contextMenuText(i, point) ==
    /\ handleContextMenu(point, texts[i].id, "text")
    /\ last' = Event("contextMenuText")
    /\ UNCHANGED <<props, images, texts, printMode, gridSize, uploads,
                   printTimers, budgets>>

\* Mutant: the handler of the component without texts (lines 93-98), which
\* leaves the selected text alone.
handleStageClick_KeepsText(targetIsStage) ==
    /\ IF targetIsStage
       THEN /\ selectedImage' = Null
            /\ contextMenu' = ClosedMenu
            /\ UNCHANGED selectedText
       ELSE UNCHANGED <<selectedImage, selectedText, contextMenu>>
    /\ last' = Event("handleStageClick")
    /\ UNCHANGED <<props, images, texts, printMode, gridSize, uploads,
                   printTimers, budgets>>

\* Stage onMouseDown.  targetIsStage: the event's target is the stage itself
\* (the pointer is on no shape); a mouse-down on an image, on a text or on the
\* page's background Rect has that shape as its target.
handleStageClick(targetIsStage) ==
    /\ IF targetIsStage
       THEN /\ selectedImage' = Null
            /\ selectedText' = Null
            /\ contextMenu' = ClosedMenu
       ELSE UNCHANGED <<selectedImage, selectedText, contextMenu>>
    /\ last' = Event("handleStageClick")
    /\ UNCHANGED <<props, images, texts, printMode, gridSize, uploads,
                   printTimers, budgets>>

-----------------------------------------------------------------------------
(* The context-menu items; the menu is rendered only while contextMenu is set *)

\* Mutant: the selected id is used as a position in the list (splice).
deleteSelectedImage_ByPosition ==
    /\ contextMenu.open
    /\ images' = IF selectedImage + 1 \in 1..Len(images)
                 THEN RemoveAt(images, selectedImage + 1)
                 ELSE images
    /\ selectedImage' = Null
    /\ contextMenu' = ClosedMenu
    /\ last' = Event("deleteSelectedImage")
    /\ UNCHANGED <<props, texts, selectedText, printMode, gridSize, uploads,
                   printTimers, budgets>>

deleteSelectedImage ==
    /\ contextMenu.open
    /\ images' = Filter(images, selectedImage)
    /\ selectedImage' = Null
    /\ contextMenu' = ClosedMenu
    /\ last' = Event("deleteSelectedImage")
    /\ UNCHANGED <<props, texts, selectedText, printMode, gridSize, uploads,
                   printTimers, budgets>>

deleteSelectedText ==
    /\ contextMenu.open
    /\ texts' = Filter(texts, selectedText)
    /\ selectedText' = Null
    /\ contextMenu' = ClosedMenu
    /\ last' = Event("deleteSelectedText")
    /\ UNCHANGED <<props, images, selectedImage, printMode, gridSize, uploads,
                   printTimers, budgets>>

\* Mutant: the image is resized about its centre, so its corner moves.
Zoomed_AboutCentre(factor) ==
    [i \in 1..Len(images) |->
        IF images[i].id = selectedImage
        THEN [images[i] EXCEPT
                 !.x = RSub(@, RDiv(RSub(RMul(images[i].width, factor),
                                         images[i].width), Num(2))),
                 !.y = RSub(@, RDiv(RSub(RMul(images[i].height, factor),
                                         images[i].height), Num(2))),
                 !.width = RMul(@, factor),
                 !.height = RMul(@, factor)]
        ELSE images[i]]

\* images.map(img => img.id === selectedImage ? {...img, width*f, height*f} : img)
Zoomed(factor) ==
    [i \in 1..Len(images) |->
        IF images[i].id = selectedImage
        THEN [images[i] EXCEPT !.width = RMul(@, factor),
                               !.height = RMul(@, factor)]
        ELSE images[i]]

zoomImage(factor, name) ==
    /\ contextMenu.open
    /\ IF Matches(images, selectedImage) # {}
       THEN edits < MaxEdits /\ edits' = edits + 1
       ELSE UNCHANGED edits
    /\ images' = Zoomed(factor)
    /\ contextMenu' = ClosedMenu
    /\ last' = Event(name)
    /\ UNCHANGED <<props, texts, selectedImage, selectedText, printMode,
                   gridSize, uploads, printTimers, uploadCount>>

zoomInImage == zoomImage(ZoomInFactor, "zoomInImage")

zoomOutImage == zoomImage(ZoomOutFactor, "zoomOutImage")

\* The text addText builds next to the selected image.
newText(image) ==
    [id |-> Len(texts),
     x |-> RAdd(image.x, Num(TextOffset)),
     y |-> RAdd(image.y, Num(TextOffset)),
     text |-> SampleText,
     width |-> TextWidth,
     rotation |-> 0]

\* Mutant: without a selected image the text is anchored at the first image.
addText_FallsBackToFirstImage ==
    /\ contextMenu.open
    /\ IF images # <<>>
       THEN /\ Len(texts) < MaxTexts
            /\ texts' = Append(texts,
                    newText(IF Matches(images, selectedImage) # {}
                            THEN Find(images, selectedImage)
                            ELSE images[1]))
       ELSE UNCHANGED texts
    /\ contextMenu' = ClosedMenu
    /\ last' = Event("addText")
    /\ UNCHANGED <<props, images, selectedImage, selectedText, printMode,
                   gridSize, uploads, printTimers, budgets>>

\* With an image id selected that no image of the list has, images.find
\* returns undefined and reading image.x throws a TypeError: nothing is set.
addText ==
    /\ contextMenu.open
    /\ IF selectedImage # Null
       THEN IF Matches(images, selectedImage) # {}
            THEN /\ Len(texts) < MaxTexts
                 /\ texts' = Append(texts, newText(Find(images, selectedImage)))
                 /\ contextMenu' = ClosedMenu
                 /\ last' = Event("addText")
            ELSE /\ last' = [op |-> "addText", threw |-> TRUE]
                 /\ UNCHANGED <<texts, contextMenu>>
       ELSE /\ contextMenu' = ClosedMenu
            /\ last' = Event("addText")
            /\ UNCHANGED texts
    /\ UNCHANGED <<props, images, selectedImage, selectedText, printMode,
                   gridSize, uploads, printTimers, budgets>>

-----------------------------------------------------------------------------
(* Dragging and editing *)

\* Image onDragEnd -> onChange: the i-th image gets the new position.
dragImage(i, pos) ==
    /\ edits < MaxEdits
    /\ edits' = edits + 1
    /\ images' = [images EXCEPT ![i] = [@ EXCEPT !.x = pos.x, !.y = pos.y]]
    /\ last' = Event("dragImage")
    /\ UNCHANGED <<props, texts, selectedImage, selectedText, printMode,
                   gridSize, contextMenu, uploads, printTimers, uploadCount>>

\* Text onDragEnd: every text with the id gets the new position.
handleTextChange(id, pos) ==
    /\ edits < MaxEdits
    /\ edits' = edits + 1
    /\ texts' = [i \in 1..Len(texts) |->
                    IF texts[i].id = id
                    THEN [texts[i] EXCEPT !.x = pos.x, !.y = pos.y]
                    ELSE texts[i]]
    /\ last' = Event("handleTextChange")
    /\ UNCHANGED <<props, images, selectedImage, selectedText, printMode,
                   gridSize, contextMenu, uploads, printTimers, uploadCount>>

dragText(i, pos) ==
    handleTextChange(texts[i].id, pos)

\* Text onDblClick with an answer to the prompt: every text with the id gets
\* the new string.
handleTextEdit(id, input) ==
    /\ edits < MaxEdits
    /\ edits' = edits + 1
    /\ texts' = [i \in 1..Len(texts) |->
                    IF texts[i].id = id
                    THEN [texts[i] EXCEPT !.text = input]
                    ELSE texts[i]]
    /\ last' = Event("handleTextEdit")
    /\ UNCHANGED <<props, images, selectedImage, selectedText, printMode,
                   gridSize, contextMenu, uploads, printTimers, uploadCount>>

\* The two clicks of the double click have selected the text before.
dblClickText(i, input) ==
    /\ selectedText = texts[i].id
    /\ selectedImage = Null
    /\ handleTextEdit(texts[i].id, input)

-----------------------------------------------------------------------------
(* Printing *)

handlePrint ==
    /\ printTimers < MaxTimers
    /\ selectedImage' = Null
    /\ selectedText' = Null
    /\ printTimers' = printTimers + 1
    /\ last' = Event("handlePrint")
    /\ UNCHANGED <<props, images, texts, printMode, gridSize, contextMenu,
                   uploads, budgets>>

\* The setTimeout callback: stageRef.current.toDataURL() rasterises the stage
\* as it is drawn at that moment, the handles of a selected entity included.
capture ==
    /\ printTimers > 0
    /\ printTimers' = printTimers - 1
    /\ last' = Event("capture")
    /\ UNCHANGED <<props, images, texts, selectedImage, selectedText,
                   printMode, gridSize, contextMenu, uploads, budgets>>

-----------------------------------------------------------------------------
(* Print mode and grid size *)

\* Mutant: the handler of the component without texts (lines 111-114), which
\* leaves the text list alone.
handlePrintModeChange_KeepsTexts(mode) ==
    /\ mode # printMode
    /\ printMode' = mode
    /\ images' = <<>>
    /\ last' = Event("handlePrintModeChange")
    /\ UNCHANGED <<props, texts, selectedImage, selectedText, gridSize,
                   contextMenu, uploads, printTimers, budgets>>

handlePrintModeChange(mode) ==
    /\ mode # printMode
    /\ printMode' = mode
    /\ images' = <<>>
    /\ texts' = <<>>
    /\ last' = Event("handlePrintModeChange")
    /\ UNCHANGED <<props, selectedImage, selectedText, gridSize, contextMenu,
                   uploads, printTimers, budgets>>

\* Mutant: the Columns field lays the images out again in the new grid.
setCols_Relayout(input) ==
    /\ printMode = "PECS"
    /\ edits < MaxEdits
    /\ edits' = edits + 1
    /\ gridSize' = [gridSize EXCEPT !.cols = OrDefault(parseInt(input), DefaultCols)]
    /\ images' = [i \in 1..Len(images) |->
                     [images[i] EXCEPT !.gridPos = gridPos(i - 1, gridSize')]]
    /\ last' = Event("setCols")
    /\ UNCHANGED <<props, texts, selectedImage, selectedText,
                   printMode, contextMenu, uploads, printTimers, uploadCount>>

\* The Columns field: setGridSize({...gridSize, cols: parseInt(value) || 5}).
\* The fields are rendered in PECS mode only.
setCols(input) ==
    /\ printMode = "PECS"
    /\ edits < MaxEdits
    /\ edits' = edits + 1
    /\ gridSize' = [gridSize EXCEPT !.cols = OrDefault(parseInt(input), DefaultCols)]
    /\ last' = Event("setCols")
    /\ UNCHANGED <<props, images, texts, selectedImage, selectedText,
                   printMode, contextMenu, uploads, printTimers, uploadCount>>

setRows(input) ==
    /\ printMode = "PECS"
    /\ edits < MaxEdits
    /\ edits' = edits + 1
    /\ gridSize' = [gridSize EXCEPT !.rows = OrDefault(parseInt(input), DefaultRows)]
    /\ last' = Event("setRows")
    /\ UNCHANGED <<props, images, texts, selectedImage, selectedText,
                   printMode, contextMenu, uploads, printTimers, uploadCount>>

-----------------------------------------------------------------------------
(* The specification *)

Next ==
    \/ \E file \in Files : uploadCount < MaxUploads /\ handleFileUpload(file)
    \/ \E i \in 1..Len(uploads) : readerOnload(i)
    \/ \E i \in 1..Len(uploads) : imgOnload(i)
    \/ \E i \in 1..Len(uploads) : decodeFails(i)
    \/ \E i \in 1..Len(images) : clickImage(i)
    \/ \E i \in 1..Len(texts) : clickText(i)
    \/ \E i \in 1..Len(images), point \in ClickPoints : contextMenuImage(i, point)
    \/ \E i \in 1..Len(texts), point \in ClickPoints : contextMenuText(i, point)
    \/ \E targetIsStage \in BOOLEAN : handleStageClick(targetIsStage)
    \/ deleteSelectedImage
    \/ deleteSelectedText
    \/ zoomInImage
    \/ zoomOutImage
    \/ addText
    \/ \E i \in 1..Len(images), pos \in DragPositions : dragImage(i, pos)
    \/ \E i \in 1..Len(texts), pos \in DragPositions : dragText(i, pos)
    \/ \E i \in 1..Len(texts), input \in PromptInputs : dblClickText(i, input)
    \/ handlePrint
    \/ capture
    \/ \E mode \in PrintModes : handlePrintModeChange(mode)
    \/ \E input \in GridInputs : setCols(input)
    \/ \E input \in GridInputs : setRows(input)

Spec == Init /\ [][Next]_vars

\* Uploads made one after another: an upload starts only when no other is in
\* flight, every file is an image, the print mode is chosen before the first
\* upload, and nothing is deleted and the grid is not changed.
NextSequential ==
    \/ \E mode \in PrintModes : uploadCount = 0 /\ handlePrintModeChange(mode)
    \/ \E file \in {f \in Files : f.image} :
          /\ uploads = <<>>
          /\ uploadCount < MaxSequentialUploads
          /\ handleFileUpload(file)
    \/ \E i \in 1..Len(uploads) : readerOnload(i)
    \/ \E i \in 1..Len(uploads) : imgOnload(i)
    \/ \E i \in 1..Len(images) : clickImage(i)
    \/ \E i \in 1..Len(images), point \in ClickPoints : contextMenuImage(i, point)
    \/ \E targetIsStage \in BOOLEAN : handleStageClick(targetIsStage)
    \/ zoomInImage
    \/ zoomOutImage
    \/ \E i \in 1..Len(images), pos \in DragPositions : dragImage(i, pos)
    \/ handlePrint
    \/ capture

SpecSequential == Init /\ [][NextSequential]_vars

\* The editor with callbacks that do fire: a file that is being read is
\* eventually read, and an image that is being decoded is eventually decoded.
\* Between the callbacks the user selects, deletes, zooms, changes the grid,
\* switches the print mode and prints; the texts are left out.
NextFair ==
    \/ \E file \in Files : uploadCount < MaxUploads /\ handleFileUpload(file)
    \/ \E i \in 1..Len(uploads) : readerOnload(i)
    \/ \E i \in 1..Len(uploads) : imgOnload(i)
    \/ \E i \in 1..Len(uploads) : decodeFails(i)
    \/ \E i \in 1..Len(images) : clickImage(i)
    \/ \E i \in 1..Len(images), point \in ClickPoints : contextMenuImage(i, point)
    \/ deleteSelectedImage
    \/ zoomInImage
    \/ zoomOutImage
    \/ \E input \in GridInputs : setCols(input)
    \/ \E mode \in PrintModes : handlePrintModeChange(mode)
    \/ handlePrint
    \/ capture

\* The end of the i-th upload's decode, whatever it appends: in NextFair these
\* are the steps of imgOnload(i), and it is enabled exactly when imgOnload(i)
\* is.
decodeCompletes(i) ==
    /\ uploads[i].stage = "decoding"
    /\ uploads[i].file.image
    /\ uploads' = RemoveAt(uploads, i)

SpecFair ==
    /\ Init
    /\ [][NextFair]_vars
    /\ WF_vars(\E i \in 1..Len(uploads) : readerOnload(i))
    /\ WF_uploads(\E i \in 1..Len(uploads) : decodeCompletes(i))

\* Uploads on a page, in a print mode and with a grid that were chosen before:
\* images are uploaded one after another, and every coordinate is the binary64
\* number the engine computes.
InitLayout ==
    /\ pageSize \in DOMAIN PAGE_SIZES
    /\ orientation \in {"portrait", "landscape"}
    /\ images = <<>>
    /\ texts = <<>>
    /\ selectedImage = Null
    /\ selectedText = Null
    /\ printMode \in PrintModes
    /\ gridSize \in LayoutGrids
    /\ contextMenu = ClosedMenu
    /\ uploads = <<>>
    /\ printTimers = 0
    /\ uploadCount = 0
    /\ edits = 0
    /\ last = Event("init")

NextLayout ==
    \/ \E file \in LayoutFiles :
          /\ uploads = <<>>
          /\ uploadCount < MaxLayoutUploads
          /\ handleFileUpload(file)
    \/ \E i \in 1..Len(uploads) : readerOnload(i)
    \/ \E i \in 1..Len(uploads) : imgOnloadFloat(i)

SpecLayout == InitLayout /\ [][NextLayout]_vars

-----------------------------------------------------------------------------
(* The claims *)

Distinct(s) == \A i, j \in 1..Len(s) : i # j => s[i].id # s[j].id

\* C1: in every reachable state, whatever the interleaving of upload starts
\* and decode completions, the image list holds at most one image.
C1_AtMostOneImage == Len(images) <= 1

\* C2: whatever the prior state, the state right after handlePrintModeChange
\* has printMode equal to the new mode, images = [] and texts = [].
C2_SwitchPrintModeClears ==
    [][\A mode \in PrintModes :
          handlePrintModeChange(mode) =>
              printMode' = mode /\ images' = <<>> /\ texts' = <<>>]_vars

C2_Witness ==
    /\ last.op = "handlePrintModeChange"
    /\ printMode = "Scaled Print"
    /\ selectedText # Null
    /\ contextMenu.open

\* C3: in every reachable state at most one of selectedImage and selectedText
\* is set.
C3_AtMostOneSelected == selectedImage = Null \/ selectedText = Null

C3_Witness ==
    /\ last.op = "clickText"
    /\ selectedText # Null
    /\ images # <<>>
    /\ contextMenu.open

\* C4: an upload whose decode fails has no effect: none of its steps (the
\* start of the upload, the read of the file, the failed decode) changes the
\* image list, the text list, the selection or the print mode.
C4_FailedUploadHasNoEffect ==
    [][(\/ \E file \in Files : ~file.image /\ handleFileUpload(file)
        \/ \E i \in 1..Len(uploads) : ~uploads[i].file.image /\ readerOnload(i)
        \/ \E i \in 1..Len(uploads) : decodeFails(i))
       => UNCHANGED <<images, texts, selectedImage, selectedText, printMode>>]_vars

\* C5: whenever the deferred raster capture of a print request fires, no
\* image and no text is selected.
C5_CaptureWithoutSelection ==
    last.op = "capture" => selectedImage = Null /\ selectedText = Null

\* C6: addText invoked while no image is selected leaves the text list and
\* the image list unchanged.
C6_AddTextWithoutImageIsNoOp ==
    [][(addText /\ selectedImage = Null) => UNCHANGED <<texts, images>>]_vars

C6_Witness ==
    /\ last.op = "addText"
    /\ selectedImage = Null
    /\ images # <<>>
    /\ texts # <<>>
    /\ ~contextMenu.open

\* C7: whenever an image is selected, addText completes without error and
\* appends exactly one text at the selected image's position plus 10, with
\* text "Sample Text", width 100 and rotation 0, the other texts unchanged.
C7_AddTextAppendsOne ==
    [][(addText /\ selectedImage # Null) =>
          /\ ~last'.threw
          /\ Len(texts') = Len(texts) + 1
          /\ SubSeq(texts', 1, Len(texts)) = texts
          /\ \E i \in Matches(images, selectedImage) :
                /\ texts'[Len(texts')].x = RAdd(images[i].x, Num(10))
                /\ texts'[Len(texts')].y = RAdd(images[i].y, Num(10))
          /\ texts'[Len(texts')].text = "Sample Text"
          /\ texts'[Len(texts')].width = 100
          /\ texts'[Len(texts')].rotation = 0]_vars

\* C8: the ids within the image list and within the text list are pairwise
\* distinct in every reachable state.
C8_IdsDistinct == Distinct(images) /\ Distinct(texts)

\* C9: for uploads made one after another in Grid (PECS) mode, the image of
\* the k-th upload gets gridPos (floor((k-1)/cols), (k-1) mod cols).
C9_KthGridPosition ==
    (last.op = "imgOnload" /\ printMode = "PECS") =>
        images[Len(images)].gridPos =
            [row |-> (uploadCount - 1) \div gridSize.cols,
             col |-> (uploadCount - 1) % gridSize.cols]

\* C10: after any sequence of inputs in the Columns and Rows fields,
\* gridSize.rows >= 1 and gridSize.cols >= 1.
C10_GridAtLeastOne == gridSize.rows >= 1 /\ gridSize.cols >= 1

\* C10, second part: an input that is not a number sets cols to 5, rows to 4.
C10_NonNumericDefaults ==
    [][\A input \in GridInputs :
          parseInt(input).nan =>
              /\ setCols(input) => gridSize'.cols = 5
              /\ setRows(input) => gridSize'.rows = 4]_vars

\* C11: a mouse-down whose target is the stage itself leaves no image and no
\* text selected and the context menu closed, and leaves images, texts, the
\* print mode and the grid as they were; a mouse-down on anything else changes
\* none of these through handleStageClick.
C11_StageClickClears ==
    [][\A targetIsStage \in BOOLEAN :
          handleStageClick(targetIsStage) =>
              /\ UNCHANGED <<images, texts, printMode, gridSize>>
              /\ IF targetIsStage
                 THEN /\ selectedImage' = Null
                      /\ selectedText' = Null
                      /\ ~contextMenu'.open
                 ELSE UNCHANGED <<selectedImage, selectedText, contextMenu>>]_vars

\* A mouse-down has been handled and left nothing selected and the menu
\* closed, with an image and a text on the canvas.
C11_Witness ==
    /\ last.op = "handleStageClick"
    /\ selectedImage = Null
    /\ selectedText = Null
    /\ ~contextMenu.open
    /\ images # <<>>
    /\ texts # <<>>

\* C12: Delete (image) removes from the list the images whose id is the
\* selected id and keeps every other image, in order and unchanged, and every
\* text; afterwards no image is selected.  With no image selected the list is
\* unchanged.
C12_DeleteImageFrame ==
    [][deleteSelectedImage =>
          LET keep == {i \in 1..Len(images) : images[i].id # selectedImage}
          IN  /\ Len(images') = Cardinality(keep)
              /\ \A i \in keep :
                    images'[Cardinality({j \in keep : j <= i})] = images[i]
              /\ (selectedImage = Null => images' = images)
              /\ texts' = texts
              /\ selectedImage' = Null]_vars

\* The selected image has been deleted: the upload that was made has completed
\* and the list is empty, while the text that was added next to the image is
\* still there.
C12_Witness ==
    /\ last.op = "deleteSelectedImage"
    /\ uploadCount = 1
    /\ uploads = <<>>
    /\ images = <<>>
    /\ texts # <<>>
    /\ selectedImage = Null

C14_ScaledInsidePage ==
    printMode = "Scaled Print" =>
        \A i \in 1..Len(images) :
            LET image == images[i]
                page == canvasDimensions(pageSize, orientation)
            IN  /\ ~image.x.neg
                /\ ~image.y.neg
                /\ DyLe(DyAdd(image.x, image.width), Number(page.width))
                /\ DyLe(DyAdd(image.y, image.height), Number(page.height))
                /\ (/\ pageSize = "A4"
                    /\ orientation = "portrait"
                    /\ image.src.width = 1000
                    /\ image.src.height = 500)
                       => /\ image.width = Number(210)
                          /\ image.height = Number(105)
                          /\ image.x = Number(0)
                          /\ image.y = Number(96)

\* C15: with rows >= 1 and cols >= 1, an image uploaded in PECS mode is at most
\* as wide and as high as a cell (cellWidth = pageW / cols, cellHeight =
\* pageH / rows), as wide or as high as the cell on one axis at least, and
\* centred in its cell: x = (cellWidth - width) / 2 and y = (cellHeight -
\* height) / 2 are not negative and leave the same margin on both sides.
C15_GridInsideCell ==
    (printMode = "PECS" /\ gridSize.rows >= 1 /\ gridSize.cols >= 1) =>
        \A i \in 1..Len(images) :
            LET image == images[i]
                page == canvasDimensions(pageSize, orientation)
                cw == FloatDiv(Number(page.width), gridSize.cols)
                ch == FloatDiv(Number(page.height), gridSize.rows)
            IN  /\ DyLe(image.width, cw)
                /\ DyLe(image.height, ch)
                /\ image.width = cw \/ image.height = ch
                /\ ~image.x.neg
                /\ ~image.y.neg
                /\ DyAdd(DyAdd(image.x, image.x), image.width) = cw
                /\ DyAdd(DyAdd(image.y, image.y), image.height) = ch
                /\ image.gridPos = gridPos(image.id, gridSize)

\* C16: a change of the number of columns or rows replaces the grid size only:
\* the stored images (x, y, width, height, id, grid position), the texts, the
\* selection and the print mode are unchanged, and so is the other dimension
\* of the grid.
C16_SetGridFrame ==
    [][\A input \in GridInputs :
          /\ setCols(input) =>
                /\ UNCHANGED <<images, texts, selectedImage, selectedText, printMode>>
                /\ gridSize'.rows = gridSize.rows
          /\ setRows(input) =>
                /\ UNCHANGED <<images, texts, selectedImage, selectedText, printMode>>
                /\ gridSize'.cols = gridSize.cols]_vars

\* The number of columns has been changed from 4 to 2 with an image on the
\* canvas that was laid out for 4 columns: it still is 105/2 wide.
C16_Witness ==
    /\ last.op = "setCols"
    /\ gridSize.cols = 2
    /\ \E i \in 1..Len(images) :
          /\ images[i].id = 1
          /\ images[i].gridPos = [row |-> 0, col |-> 1]
          /\ images[i].width = Rat(105, 2)

\* C17: after each item of the context menu (delete image, zoom in, zoom out,
\* add text, delete text), with or without a selection, the menu is closed.
C17_MenuClosedAfterItem ==
    last.op \in {"deleteSelectedImage", "zoomInImage", "zoomOutImage",
                 "addText", "deleteSelectedText"}
        => ~contextMenu.open

C19_DecodedUploadAppendsOnce ==
    /\ [][(Len(uploads') < Len(uploads)) =>
             (\E i \in 1..Len(uploads) :
                 /\ uploads[i].stage = "decoding"
                 /\ uploads' = RemoveAt(uploads, i)
                 /\ images' = IF uploads[i].file.image
                              THEN Append(images, newImage(uploads[i]))
                              ELSE images)]_vars
    /\ [][(Len(images') > Len(images)) => (Len(uploads') < Len(uploads))]_vars
    /\ \A k \in 1..MaxUploads :
          (Len(uploads) >= k /\ uploads[k].file.image)
              ~> ~(Len(uploads) >= k /\ uploads[k].file.image)

\* The image of an upload that was started in Scaled mode has been appended
\* after the user switched to PECS mode.
C19_Witness ==
    /\ last.op = "imgOnload"
    /\ printMode = "PECS"
    /\ uploads = <<>>
    /\ images # <<>>
    /\ images[Len(images)].width = Num(210)

\* C20: a selected image id is the id of an image of the list and a selected
\* text id is the id of a text of the list: no operation leaves a selection
\* that refers to an entity that is gone.
C20_NoDanglingSelection ==
    /\ selectedImage # Null => Matches(images, selectedImage) # {}
    /\ selectedText # Null => Matches(texts, selectedText) # {}

\* C21: a decode that was pending when the print mode or the grid changed never
\* appends an image: the image that a decode has just appended is the image
\* that the print mode and the grid of that moment give for its file and its
\* index, so every image was scaled and positioned for the mode and the grid
\* that were current when it was appended.
C21_AppendedForCurrentMode ==
    (last.op = "imgOnload" /\ images # <<>>) =>
        LET image == images[Len(images)]
        IN  image = newImage([n |-> image.id,
                              printMode |-> printMode,
                              gridSize |-> gridSize,
                              pageSize |-> pageSize,
                              orientation |-> orientation,
                              file |-> image.src,
                              stage |-> "decoding"])

====
